---- MODULE Spec2Model ----
(***************************************************************************)
(* git-auto-fetch (src/main.rs): main loads a configuration, spawns one    *)
(* thread per configured repository running handle_repository, and joins   *)
(* the threads in spawn order.  The state machine starts after the command *)
(* line has been parsed (CliArgs::from_args returned).                     *)
(***************************************************************************)
EXTENDS Integers, Sequences, FiniteSets, TLC

\* ------------------------------------------------------------------ bounds
\* Largest number of repositories in a configuration file.
MaxRepos == 2

\* ------------------------------------------------------------------ inputs
Paths == {"/repos/a", "/repos/b"}
Remotes == {"origin"}
BranchLists == {<<>>, <<"main">>}

\* struct GitRepository
GitRepository == [local_path : Paths, remote : Remotes, fetch_branches : BranchLists]

RepositoryLists == UNION {[1..n -> GitRepository] : n \in 0..MaxRepos}

\* What load_config returns for the configuration file: Err, or Ok(Config).
ConfigResults ==
    {[ok |-> FALSE, repositories |-> <<>>]}
        \cup {[ok |-> TRUE, repositories |-> r] : r \in RepositoryLists}

\* The git2 calls of one repository, in the order handle_repository makes them.
\* The environment names, per repository, the first call that returns Err
\* ("none": every call returns Ok), or that its fetch never returns ("hang":
\* open and find_remote return Ok and remote.fetch, a blocking network call
\* made without a timeout, stays blocked).
VcsFaults == {"none", "open", "find_remote", "fetch", "hang"}

\* git2::Repository::open(local_path) for the i-th repository.
OpenResult(env, i) == IF env[i] = "open" THEN "Err" ELSE "Ok"

\* repository.find_remote(&remote) for the i-th repository.
FindRemoteResult(env, i) == IF env[i] = "find_remote" THEN "Err" ELSE "Ok"

\* remote.fetch(&fetch_branches, None, None): called with whatever branch list
\* the repository has, the empty one included; the outcome is the library's.
FetchResult(env, i, fetch_branches) == IF env[i] = "fetch" THEN "Err" ELSE "Ok"

\* remote.fetch comes back at all for the i-th repository.
FetchReturns(env, i) == env[i] # "hang"

\* Exit status of a process whose main returned.
SuccessExit == 0
\* Exit status of a process whose main thread panicked.
PanicExit == 101

VARIABLES
    config_file,   \* input: what load_config will return
    vcs,           \* input: per repository, the first failing git2 call
    pc,            \* main's position
    repositories,  \* main's Config { repositories }
    handles,       \* main's Vec of JoinHandle (thread ids, in spawn order)
    joined,        \* handles already consumed by the for_each of line 79
    threads,       \* spawned threads: repository moved in, position, git2 calls made
    stderr,        \* panic messages printed so far
    exit_status    \* <<>> while the process runs, <<code>> once it has exited

vars == <<config_file, vcs, pc, repositories, handles, joined, threads, stderr, exit_status>>

Exited == exit_status # <<>>

Init ==
    /\ config_file \in ConfigResults
    /\ vcs \in [1..Len(config_file.repositories) -> VcsFaults]
    /\ pc = "init_logging"
    /\ repositories = <<>>
    /\ handles = <<>>
    /\ joined = 0
    /\ threads = <<>>
    /\ stderr = {}
    /\ exit_status = <<>>

\* ------------------------------------------------------------------ main
\* A panic of the main thread: the message is printed, the stack unwinds
\* (dropping the remaining JoinHandles detaches their threads) and the
\* process exits, which ends every thread still running.
MainPanics(message) ==
    /\ stderr' = stderr \cup {[thread |-> 0, error |-> message]}
    /\ pc' = "exited"
    /\ exit_status' = <<PanicExit>>

\* Lines 70-71: the result of init_logging is traced and not looked at again.
InitLogging ==
    /\ pc = "init_logging"
    /\ pc' = "load_config"
    /\ UNCHANGED <<config_file, vcs, repositories, handles, joined, threads, stderr, exit_status>>

\* load_config(config_file).unwrap_or_default() in place of unwrap().
LoadConfigOrDefault ==
    /\ pc = "load_config"
    /\ repositories' = config_file.repositories
    /\ pc' = "spawn"
    /\ UNCHANGED <<config_file, vcs, handles, joined, threads, stderr, exit_status>>

\* Lines 72-75: load_config(config_file).unwrap(), then the empty handles Vec.
LoadConfig ==
    /\ pc = "load_config"
    /\ IF config_file.ok
         THEN /\ repositories' = config_file.repositories
              /\ pc' = "spawn"
              /\ UNCHANGED <<stderr, exit_status>>
         ELSE /\ MainPanics("ConfigError")
              /\ UNCHANGED repositories
    /\ UNCHANGED <<config_file, vcs, handles, joined, threads>>

\* A spawn loop that takes the repositories from the back of the Vec (pop).
SpawnFromBack ==
    /\ pc = "spawn"
    /\ Len(handles) < Len(repositories)
    /\ threads' = Append(threads,
                    [repository |-> repositories[Len(repositories) - Len(handles)],
                     pc |-> "open",
                     calls |-> <<>>])
    /\ handles' = Append(handles, Len(threads) + 1)
    /\ UNCHANGED <<config_file, vcs, pc, repositories, joined, stderr, exit_status>>

\* A spawn loop that lets the previous thread finish before it spawns the next.
SpawnAfterPrevious ==
    /\ pc = "spawn"
    /\ Len(handles) < Len(repositories)
    /\ \A t \in 1..Len(threads) : threads[t].pc \in {"returned", "panicked"}
    /\ threads' = Append(threads,
                    [repository |-> repositories[Len(handles) + 1],
                     pc |-> "open",
                     calls |-> <<>>])
    /\ handles' = Append(handles, Len(threads) + 1)
    /\ UNCHANGED <<config_file, vcs, pc, repositories, joined, stderr, exit_status>>

\* Lines 76-78, one iteration: the next repository is moved into a new thread.
Spawn ==
    /\ pc = "spawn"
    /\ Len(handles) < Len(repositories)
    /\ threads' = Append(threads,
                    [repository |-> repositories[Len(handles) + 1],
                     pc |-> "open",
                     calls |-> <<>>])
    /\ handles' = Append(handles, Len(threads) + 1)
    /\ UNCHANGED <<config_file, vcs, pc, repositories, joined, stderr, exit_status>>

\* Lines 76-79: the for loop is over, the join loop starts.
SpawnDone ==
    /\ pc = "spawn"
    /\ Len(handles) = Len(repositories)
    /\ pc' = "join"
    /\ UNCHANGED <<config_file, vcs, repositories, handles, joined, threads, stderr, exit_status>>

\* A join that does not block (a poll of the handle in place of join).
FinishedNoWait(t) == TRUE

\* A join that waits for a completion signal only a returning thread sends.
FinishedOnlyReturned(t) == threads[t].pc = "returned"

\* JoinHandle::join blocks until the thread has finished.
Finished(t) == threads[t].pc \in {"returned", "panicked"}

\* A join whose result is dropped (join().ok() in place of join().unwrap()).
JoinResultIgnored(t) == "Ok"

\* A join whose result is read the wrong way round.
JoinResultInverted(t) == IF threads[t].pc = "panicked" THEN "Ok" ELSE "Err"

\* JoinHandle::join returns Err exactly for a thread that panicked.
JoinResult(t) == IF threads[t].pc = "panicked" THEN "Err" ELSE "Ok"

\* A join loop that takes the handles from the back of the Vec (pop, or rev).
JoinFromBack ==
    /\ pc = "join"
    /\ joined < Len(handles)
    /\ LET t == handles[Len(handles) - joined] IN
         /\ Finished(t)
         /\ IF JoinResult(t) = "Ok"
              THEN /\ joined' = joined + 1
                   /\ UNCHANGED <<pc, stderr, exit_status>>
              ELSE /\ MainPanics("JoinError")
                   /\ UNCHANGED joined
    /\ UNCHANGED <<config_file, vcs, repositories, handles, threads>>

\* Lines 79-81, one iteration: cur_thread.join().unwrap().
Join ==
    /\ pc = "join"
    /\ joined < Len(handles)
    /\ LET t == handles[joined + 1] IN
         /\ Finished(t)
         /\ IF JoinResult(t) = "Ok"
              THEN /\ joined' = joined + 1
                   /\ UNCHANGED <<pc, stderr, exit_status>>
              ELSE /\ MainPanics("JoinError")
                   /\ UNCHANGED joined
    /\ UNCHANGED <<config_file, vcs, repositories, handles, threads>>

\* A main that treats "nothing was fetched" as an error.
MainReturnFailsOnEmpty ==
    /\ pc = "join"
    /\ joined = Len(handles)
    /\ pc' = "exited"
    /\ exit_status' = IF handles = <<>> THEN <<PanicExit>> ELSE <<SuccessExit>>
    /\ UNCHANGED <<config_file, vcs, repositories, handles, joined, threads, stderr>>

\* Line 82: every handle was joined, main returns.
MainReturn ==
    /\ pc = "join"
    /\ joined = Len(handles)
    /\ pc' = "exited"
    /\ exit_status' = <<SuccessExit>>
    /\ UNCHANGED <<config_file, vcs, repositories, handles, joined, threads, stderr>>

\* ------------------------------------------------------------------ threads
\* A thread of a process that has exited runs no more.
Running(t) == /\ ~Exited
              /\ t \in 1..Len(threads)

\* Result::unwrap on Err: the thread panics, printing the error.
ThreadPanics(t, call, error) ==
    /\ threads' = [threads EXCEPT ![t].pc = "panicked",
                                  ![t].calls = Append(@, call)]
    /\ stderr' = stderr \cup {[thread |-> t, error |-> error]}

ThreadMoves(t, call, to) ==
    /\ threads' = [threads EXCEPT ![t].pc = to,
                                  ![t].calls = Append(@, call)]
    /\ UNCHANGED stderr

\* An open whose Err is dropped instead of unwrapped: the thread goes on.
OpenIgnoresErr(t) ==
    /\ Running(t)
    /\ threads[t].pc = "open"
    /\ ThreadMoves(t, "open", "find_remote")
    /\ UNCHANGED <<config_file, vcs, pc, repositories, handles, joined, exit_status>>

\* Line 56: git2::Repository::open(local_path).unwrap().
Open(t) ==
    /\ Running(t)
    /\ threads[t].pc = "open"
    /\ IF OpenResult(vcs, t) = "Ok"
         THEN ThreadMoves(t, "open", "find_remote")
         ELSE ThreadPanics(t, "open", "NotFound")
    /\ UNCHANGED <<config_file, vcs, pc, repositories, handles, joined, exit_status>>

\* Lines 57-62: find_remote; on Err the match yields it and result.unwrap()
\* panics, on Ok the thread enters remote.fetch.
FindRemote(t) ==
    /\ Running(t)
    /\ threads[t].pc = "find_remote"
    /\ IF FindRemoteResult(vcs, t) = "Ok"
         THEN ThreadMoves(t, "find_remote", "fetch")
         ELSE ThreadPanics(t, "find_remote", "RemoteNotFound")
    /\ UNCHANGED <<config_file, vcs, pc, repositories, handles, joined, exit_status>>

\* Lines 59-62: remote.fetch returns, result.unwrap(), the closure returns.
Fetch(t) ==
    /\ Running(t)
    /\ threads[t].pc = "fetch"
    /\ FetchReturns(vcs, t)
    /\ IF FetchResult(vcs, t, threads[t].repository.fetch_branches) = "Ok"
         THEN ThreadMoves(t, "fetch", "returned")
         ELSE ThreadPanics(t, "fetch", "FetchFailed")
    /\ UNCHANGED <<config_file, vcs, pc, repositories, handles, joined, exit_status>>

\* handle_repository, one step of one thread.
HandleRepository == \E t \in 1..MaxRepos : Open(t) \/ FindRemote(t) \/ Fetch(t)

Next ==
    \/ InitLogging
    \/ LoadConfig
    \/ Spawn
    \/ SpawnDone
    \/ Join
    \/ MainReturn
    \/ HandleRepository

Spec == Init /\ [][Next]_vars

TypeOK ==
    /\ config_file \in ConfigResults
    /\ pc \in {"init_logging", "load_config", "spawn", "join", "exited"}
    /\ joined \in 0..Len(handles)
    /\ Len(handles) = Len(threads)
    /\ Len(threads) <= Len(repositories)
    /\ Exited <=> pc = "exited"

\* The operating system schedules the main thread and every spawned thread:
\* a step that stays possible is eventually taken.
FairSpec == Spec /\ WF_vars(Next)

\* ------------------------------------------------------------------ claims
\* The i-th repository of the configuration has a git2 call that returns Err.
Fails(i) == vcs[i] \in {"open", "find_remote", "fetch"}

\* Every git2 call of the i-th repository returns Ok.
Succeeds(i) == vcs[i] = "none"

\* Thread t has made the git2 call that returns Err.
CallFailed(t) ==
    /\ threads[t].calls # <<>>
    /\ threads[t].calls[Len(threads[t].calls)] = vcs[t]

NoVcsCall == \A t \in 1..Len(threads) : threads[t].calls = <<>>

\* C1: the process exits only after every spawned thread has finished, also
\* when a repository's open, find_remote or fetch fails.
C1_ExitsOnlyAfterAllThreads ==
    Exited => \A t \in 1..Len(threads) : Finished(t)

\* C2: when some repository's open, find_remote or fetch fails (or a thread
\* panicked), the process never exits with status zero.
C2_FailureNeverExitsZero ==
    (Exited /\ ( \/ \E i \in DOMAIN vcs : Fails(i)
                 \/ \E t \in 1..Len(threads) : threads[t].pc = "panicked" ))
        => exit_status # <<SuccessExit>>

C2_Witness ==
    /\ Exited
    /\ Len(threads) = 2
    /\ threads[1].pc = "returned"
    /\ threads[2].pc = "panicked"
    /\ exit_status = <<PanicExit>>

\* C3: when the configuration loads and every git2 call of every repository
\* succeeds, the process exits, and with status zero, whatever the order in
\* which the threads run and finish.
C3_AllSucceedExitsZero ==
    (config_file.ok /\ \A i \in DOMAIN vcs : Succeeds(i))
        ~> (exit_status = <<SuccessExit>>)

C3_Witness ==
    /\ config_file.ok
    /\ Len(config_file.repositories) = MaxRepos
    /\ \A i \in DOMAIN vcs : Succeeds(i)
    /\ Len(threads) = MaxRepos
    /\ \A t \in 1..Len(threads) : threads[t].pc = "returned"
    /\ exit_status = <<SuccessExit>>

\* C4: a configuration that loads with an empty repository list spawns no
\* thread, makes no git2 call, prints no panic, and exits with status zero.
C4_EmptyListExitsZero ==
    (config_file.ok /\ config_file.repositories = <<>>)
        => /\ threads = <<>>
           /\ handles = <<>>
           /\ NoVcsCall
           /\ stderr = {}
           /\ Exited => exit_status = <<SuccessExit>>

C4_Witness ==
    /\ config_file.ok
    /\ config_file.repositories = <<>>
    /\ Exited
    /\ threads = <<>>
    /\ exit_status = <<SuccessExit>>

\* C5: a thread whose open, find_remote or fetch returned Err ends normally
\* (it returns, reporting the failure); it never ends by a panic.
C5_VcsErrorEndsNormally ==
    \A t \in 1..Len(threads) :
        CallFailed(t) => threads[t].pc = "returned"

\* C6: a process that ends on a thread whose git2 call returned Err (a reported
\* failure) ends with another status than the one of a crashed thread, which
\* is the panic status.
C6_FailureDiffersFromCrash ==
    (Exited /\ joined < Len(handles) /\ CallFailed(handles[joined + 1]))
        => exit_status # <<PanicExit>>

\* C7: when the process has exited, every repository whose git2 call fails has
\* had its failure printed, and no repository without a failing call has one.
C7_EveryFailureSurfaced ==
    Exited =>
        /\ \A i \in DOMAIN vcs : Fails(i) => \E m \in stderr : m.thread = i
        /\ \A m \in stderr : m.thread # 0 => Fails(m.thread)

\* C8: a thread whose repository has an empty branch list and whose open and
\* find_remote succeeded ends successfully, whatever fetch returns.
C8_EmptyBranchListSucceeds ==
    \A t \in 1..Len(threads) :
        ( /\ threads[t].repository.fetch_branches = <<>>
          /\ vcs[t] \notin {"open", "find_remote"}
          /\ Finished(t) )
            => threads[t].pc = "returned"

\* C9: when load_config fails, no thread is ever spawned, no git2 call is ever
\* made, and the process exits with a non-zero status.
C9_ConfigErrorIsFatal ==
    ~config_file.ok
        => /\ threads = <<>>
           /\ handles = <<>>
           /\ NoVcsCall
           /\ pc \notin {"spawn", "join"}
           /\ Exited => exit_status # <<SuccessExit>>

C9_Witness ==
    /\ ~config_file.ok
    /\ Exited
    /\ threads = <<>>
    /\ exit_status = <<PanicExit>>

\* The exit status as a function of the repository list and of the results of
\* the git2 calls alone.
ExpectedExit(tasks, env) ==
    IF \A i \in 1..Len(tasks) : env[i] = "none" THEN SuccessExit ELSE PanicExit

\* C10: the exit status is determined by the repository list and the results
\* of the git2 calls: whatever the interleaving, a process that exits does so
\* with the status these inputs fix.
C10_ExitStatusDetermined ==
    (Exited /\ config_file.ok)
        => exit_status = <<ExpectedExit(config_file.repositories, vcs)>>

\* The process has exited on the first thread's panic while the second thread,
\* which would succeed, is still inside fetch.
C10_Witness ==
    /\ Exited
    /\ Len(threads) = 2
    /\ threads[1].pc = "panicked"
    /\ threads[2].pc = "fetch"
    /\ ~Fails(2)
    /\ exit_status = <<PanicExit>>

\* The git2 calls of handle_repository, in program order.
CallOrder == <<"open", "find_remote", "fetch">>

IsPrefix(s, q) ==
    /\ Len(s) <= Len(q)
    /\ \A k \in 1..Len(s) : s[k] = q[k]

\* Thread t has called find_remote (the call has returned).
FindRemoteInvoked(t) == \E k \in 1..Len(threads[t].calls) : threads[t].calls[k] = "find_remote"

\* Thread t has called remote.fetch: it is inside the call, or the call returned.
FetchInvoked(t) ==
    \/ threads[t].pc = "fetch"
    \/ \E k \in 1..Len(threads[t].calls) : threads[t].calls[k] = "fetch"

\* C11: a thread calls open, find_remote, fetch in this order, each at most
\* once; find_remote only after open returned Ok and fetch only after
\* find_remote returned Ok, so a thread whose open or find_remote fails never
\* calls fetch.
C11_CallsInOrderNoRetry ==
    \A t \in 1..Len(threads) :
        /\ IsPrefix(threads[t].calls, CallOrder)
        /\ FindRemoteInvoked(t) => OpenResult(vcs, t) = "Ok"
        /\ FetchInvoked(t) => /\ OpenResult(vcs, t) = "Ok"
                              /\ FindRemoteResult(vcs, t) = "Ok"

\* Both threads have ended on a failed call, one on open and one on
\* find_remote, and neither has called fetch.
C11_Witness ==
    /\ Len(threads) = 2
    /\ vcs[1] = "open"
    /\ threads[1].pc = "panicked"
    /\ threads[1].calls = <<"open">>
    /\ vcs[2] = "find_remote"
    /\ threads[2].pc = "panicked"
    /\ threads[2].calls = <<"open", "find_remote">>

\* C12: the threads are spawned one per repository in the order of the
\* configuration: the i-th thread holds the i-th repository, and once the
\* spawn loop is over there are as many threads as repositories.
C12_OneThreadPerRepository ==
    /\ Len(threads) <= Len(config_file.repositories)
    /\ \A i \in 1..Len(threads) :
         /\ threads[i].repository = config_file.repositories[i]
         /\ handles[i] = i
    /\ (pc = "join" \/ (pc = "exited" /\ config_file.ok))
         => /\ Len(threads) = Len(config_file.repositories)
            /\ Len(handles) = Len(config_file.repositories)

C12_Witness ==
    /\ pc = "join"
    /\ Len(config_file.repositories) = 2
    /\ config_file.repositories[1] # config_file.repositories[2]
    /\ Len(threads) = 2
    /\ threads[1].repository = config_file.repositories[1]
    /\ threads[2].repository = config_file.repositories[2]

\* C13: main joins nothing before every thread is spawned, and while a
\* repository is left the next spawn is possible whatever the earlier threads
\* are doing.
C13_SpawnNeverWaits ==
    /\ pc = "spawn" => joined = 0
    /\ joined > 0 => Len(handles) = Len(repositories)
    /\ (pc = "spawn" /\ Len(handles) < Len(repositories)) => ENABLED Spawn

\* Every thread is inside fetch at the same time, the first one in a fetch
\* that never returns.
C13_Witness ==
    /\ Len(config_file.repositories) = MaxRepos
    /\ Len(threads) = MaxRepos
    /\ \A t \in 1..Len(threads) : threads[t].pc = "fetch"
    /\ vcs[1] = "hang"
    /\ joined = 0

\* C14: while a spawned thread is inside a fetch that never returns, the
\* process does not exit, whatever happens to the other repositories.
C14_HungFetchNeverExits ==
    (\E t \in 1..Len(threads) : threads[t].pc = "fetch" /\ ~FetchReturns(vcs, t))
        => ~Exited

\* C15: two threads that are running at the same time never hold the same
\* local path.
C15_RunningThreadsDistinctPaths ==
    \A t1, t2 \in 1..Len(threads) :
        ( /\ t1 # t2
          /\ ~Exited
          /\ ~Finished(t1)
          /\ ~Finished(t2) )
            => threads[t1].repository.local_path # threads[t2].repository.local_path

\* C16: under fair scheduling, when every fetch returns (open and find_remote
\* always do), the process eventually exits.
C16_Terminates ==
    (\A i \in DOMAIN vcs : FetchReturns(vcs, i)) ~> Exited

\* The process has exited after a run in which one thread panicked and the
\* other returned.
C16_Witness ==
    /\ Exited
    /\ Len(threads) = 2
    /\ \A i \in DOMAIN vcs : FetchReturns(vcs, i)
    /\ threads[1].pc = "panicked"
    /\ threads[2].pc = "returned"

\* main has panicked on the Err of a join.
AbortedOnJoin == Exited /\ [thread |-> 0, error |-> "JoinError"] \in stderr

\* C17: when main aborts on a join, it is the join of the next handle in
\* spawn order; that thread panicked, every thread before it returned
\* successfully, and it is the lowest-indexed repository with a failing call.
C17_AbortsOnLowestFailing ==
    AbortedOnJoin =>
        /\ joined < Len(handles)
        /\ handles[joined + 1] = joined + 1
        /\ threads[joined + 1].pc = "panicked"
        /\ Fails(joined + 1)
        /\ \A t \in 1..joined : threads[t].pc = "returned" /\ Succeeds(t)
        /\ \A i \in DOMAIN vcs : Fails(i) => i >= joined + 1

\* main aborted on the join of the first thread although the second thread
\* has panicked as well.
C17_Witness ==
    /\ AbortedOnJoin
    /\ joined = 0
    /\ Len(threads) = 2
    /\ threads[1].pc = "panicked"
    /\ threads[2].pc = "panicked"
====
